---- MODULE Spec2Model ----
(***************************************************************************)
(* Model of front/plugins/db_cleanup/script.py: cleanup_database, the      *)
(* retention clean-up of the application database.  One run is a fixed     *)
(* sequence of DELETE statements on one sqlite3 connection, a commit, a    *)
(* VACUUM and a close.  Tables are sets of rows; timestamps are texts.     *)
(***************************************************************************)
EXTENDS Integers, Sequences, FiniteSets, TLC

VARIABLES
    pc,        \* position of cleanup_database: the statement about to execute
    conn,      \* the sqlite3 connection: "none", "open" or "closed"
    db,        \* committed contents of the database file, table -> set of rows
    tx,        \* contents as seen through conn (committed + pending deletions)
    pre,       \* pre[i]: committed contents when run i connected
    args,      \* the arguments of cleanup_database
    settings,  \* values returned by get_setting_value inside cleanup_database
    now,       \* the database clock 'now', in hours since day 0
    run,       \* number of the current invocation of cleanup_database
    failedAt,  \* the statement that raised, "" while none has
    commits    \* number of conn.commit() calls completed in the current run

vars == <<pc, conn, db, tx, pre, args, settings, now, run, failedAt, commits>>

----------------------------------------------------------------------------
(* Bounds of the model *)

MaxOnlineExtra == 4   \* Online_History rows beyond the fixed bulk
MaxEvents == 3        \* Events rows
MaxHist == 3          \* Plugins_History rows
MaxKeep == 2          \* largest PLUGINS_KEEP_HIST / history count setting
MaxCapRows == 3       \* Notifications rows, AppEvents rows
MaxDevices == 3       \* Devices rows
MaxPholus == 3        \* Pholus_Scan rows
MaxObjects == 3       \* Plugins_Objects rows
MaxRuns == 2          \* successive invocations of cleanup_database

(* Program constants *)

OnlineKeep == 150     \* "limit 150"
HoursPerDay == 24     \* the 'day' and 'hour' modifiers of date()

----------------------------------------------------------------------------
(* Texts.  A timestamp column holds 'YYYY-MM-DD HH:MM:SS', modelled as the  *)
(* sequence <<day, hour>>; date(...) returns 'YYYY-MM-DD', modelled as      *)
(* <<day>>.  SQLite compares TEXT values byte by byte, a proper prefix      *)
(* being smaller than the longer text.                                      *)

Min(a, b) == IF a < b THEN a ELSE b

TextLT(a, b) ==
    \/ \E i \in 1..Min(Len(a), Len(b)) :
          /\ \A j \in 1..(i - 1) : a[j] = b[j]
          /\ a[i] < b[i]
    \/ /\ Len(a) < Len(b)
       /\ \A j \in 1..Len(a) : a[j] = b[j]

TextLE(a, b) == a = b \/ TextLT(a, b)

\* date('now', '-<offset> hour'): the calendar date of now minus offset hours
SqlDate(t, offsetHours) == << (t - offsetHours) \div HoursPerDay >>

\* date('now', '-<n> day')
SqlDateDays(t, n) == SqlDate(t, n * HoursPerDay)

----------------------------------------------------------------------------
(* Values of the PHOLUS_DAYS_DATA setting: a Python str or a Python int *)

PyStr(s) == [isText |-> TRUE, text |-> s, num |-> 0]
PyInt(n) == [isText |-> FALSE, text |-> "", num |-> n]

\* The guard with its "!= 0" test dropped
PholusGuardNoZeroTest(v) == ~(v.isText /\ v.text = "")

\* PHOLUS_DAYS_DATA != "" and PHOLUS_DAYS_DATA != 0
PholusGuard(v) ==
    /\ ~(v.isText /\ v.text = "")
    /\ ~(~v.isText /\ v.num = 0)

----------------------------------------------------------------------------
(* SQL building blocks *)

\* SELECT ... ORDER BY key DESC LIMIT k: the possible result sets, key being
\* the function from each row to its ORDER BY column.  Rows of equal key are
\* in the engine's order, so every choice among them is possible.
OrderByDescLimit(rows, k, key) ==
    IF k <= 0 THEN {{}}
    ELSE IF Cardinality(rows) <= k THEN {rows}
    ELSE LET Above(v) == {r \in rows : TextLT(v, key[r])}
             At(v) == {r \in rows : key[r] = v}
             v == CHOOSE w \in {key[r] : r \in rows} :
                      /\ Cardinality(Above(w)) < k
                      /\ k <= Cardinality(Above(w)) + Cardinality(At(w))
         IN  {Above(v) \cup T :
                 T \in {U \in SUBSET At(v) :
                           Cardinality(U) = k - Cardinality(Above(v))}}

\* SELECT ... ORDER BY key ASC LIMIT k (the oldest k rows)
OrderByAscLimit(rows, k, key) ==
    IF k <= 0 THEN {{}}
    ELSE IF Cardinality(rows) <= k THEN {rows}
    ELSE LET Below(v) == {r \in rows : TextLT(key[r], v)}
             At(v) == {r \in rows : key[r] = v}
             v == CHOOSE w \in {key[r] : r \in rows} :
                      /\ Cardinality(Below(w)) < k
                      /\ k <= Cardinality(Below(w)) + Cardinality(At(w))
         IN  {Below(v) \cup T :
                 T \in {U \in SUBSET At(v) :
                           Cardinality(U) = k - Cardinality(Below(v))}}

\* SELECT "Index" FROM (SELECT "Index", ROW_NUMBER() OVER (PARTITION BY part
\* ORDER BY key DESC) AS row_num ...) WHERE row_num <= k: the possible sets of
\* selected rows, one top-k choice per partition; part and key are the
\* functions from each row to its PARTITION BY and ORDER BY values.
RowNumberAtMost(rows, k, part, key) ==
    {S \in SUBSET rows :
        \A r \in rows :
            LET partition == {q \in rows : part[q] = part[r]}
            IN  (S \cap partition) \in OrderByDescLimit(partition, k, key)}

\* DELETE FROM t WHERE "Index" NOT IN (<selected>): the rows left in t
DeleteIndexNotIn(rows, selected) ==
    {r \in rows : r.Index \in {s.Index : s \in selected}}

----------------------------------------------------------------------------
(* The statements of cleanup_database, as functions of the table contents. *)
(* A statement whose result depends on the order of equal keys yields the  *)
(* set of its possible results.                                            *)

\* Online_History: keep the 150 rows of lowest Scan_Date
OnlineHistoryKeepOldest(rows) ==
    {DeleteIndexNotIn(rows, S) :
        S \in OrderByAscLimit(rows, OnlineKeep,
                             [r \in rows |-> r.Scan_Date])}

\* DELETE from Online_History where "Index" not in (SELECT "Index" from
\* Online_History order by Scan_Date desc limit 150)
OnlineHistoryResults(rows) ==
    {DeleteIndexNotIn(rows, S) :
        S \in OrderByDescLimit(rows, OnlineKeep,
                              [r \in rows |-> r.Scan_Date])}

\* DELETE FROM Events WHERE eve_DateTime <= date('now', '-N day')
EventsResult(rows, days, t) ==
    {r \in rows : ~TextLE(r.eve_DateTime, SqlDateDays(t, days))}

\* Plugins_History ranked without the partition (one global top K)
PluginsHistoryGlobal(rows, k) ==
    {DeleteIndexNotIn(rows, S) :
        S \in RowNumberAtMost(rows, k, [r \in rows |-> "Plugins_History"],
                              [r \in rows |-> r.DateTimeChanged])}

\* DELETE FROM Plugins_History WHERE "Index" NOT IN (... ROW_NUMBER() OVER
\* (PARTITION BY "Plugin" ORDER BY DateTimeChanged DESC) ... row_num <= K)
PluginsHistoryResults(rows, k) ==
    {DeleteIndexNotIn(rows, S) :
        S \in RowNumberAtMost(rows, k, [r \in rows |-> r.Plugin],
                              [r \in rows |-> r.DateTimeChanged])}

\* DELETE FROM Notifications ... PARTITION BY "Notifications": the table has
\* no such column, so SQLite reads the quoted name as a string literal and
\* all rows fall in one partition.
NotificationsResults(rows, histCount) ==
    {DeleteIndexNotIn(rows, S) :
        S \in RowNumberAtMost(rows, histCount, [r \in rows |-> "Notifications"],
                              [r \in rows |-> r.DateTimeCreated])}

\* DELETE FROM AppEvents ... PARTITION BY "AppEvents" (a literal, as above)
AppEventsResults(rows, histCount) ==
    {DeleteIndexNotIn(rows, S) :
        S \in RowNumberAtMost(rows, histCount, [r \in rows |-> "AppEvents"],
                              [r \in rows |-> r.DateTimeCreated])}

\* if HRS_TO_KEEP_NEWDEV != 0: DELETE FROM Devices WHERE dev_NewDevice = 1
\* AND dev_FirstConnection < date('now', '-H hour')
DevicesResult(rows, hours, t) ==
    IF hours # 0
    THEN {r \in rows : ~(/\ r.dev_NewDevice = 1
                         /\ TextLT(r.dev_FirstConnection, SqlDate(t, hours)))}
    ELSE rows

\* The Pholus_Scan age-out with the "!= 0" test dropped from its guard
PholusAgeResultNoZeroTest(rows, v, t) ==
    IF PholusGuardNoZeroTest(v)
    THEN {r \in rows : ~TextLE(r.Time, SqlDateDays(t, v.num))}
    ELSE rows

\* if PHOLUS_DAYS_DATA != "" and PHOLUS_DAYS_DATA != 0:
\*     DELETE FROM Pholus_Scan WHERE Time <= date('now', '-D day')
PholusAgeResult(rows, v, t) ==
    IF PholusGuard(v)
    THEN {r \in rows : ~TextLE(r.Time, SqlDateDays(t, v.num))}
    ELSE rows

\* SELECT MIN(rowid) FROM <the rows p2 selected by the WHERE clause>
MinRowid(selected) ==
    LET ids == {p2.rowid : p2 \in selected}
    IN  CHOOSE m \in ids : \A n \in ids : m <= n

MaxRowid(selected) ==
    LET ids == {p2.rowid : p2 \in selected}
    IN  CHOOSE m \in ids : \A n \in ids : m >= n

PholusSameKey(r, p2) ==
    /\ r.MAC = p2.MAC
    /\ r.Value = p2.Value
    /\ r.Record_Type = p2.Record_Type

ObjectsSameKey(r, p2) ==
    /\ r.Plugin = p2.Plugin
    /\ r.Object_PrimaryID = p2.Object_PrimaryID
    /\ r.Object_SecondaryID = p2.Object_SecondaryID
    /\ r.UserData = p2.UserData

\* A pairwise de-duplication: of each group only the second row is deleted
PholusDedupPairwise(rows) ==
    {r \in rows :
        Cardinality({q \in rows : PholusSameKey(r, q) /\ q.rowid < r.rowid}) # 1}

\* A de-duplication keeping the largest rowid of each group
PholusDedupKeepLast(rows) ==
    {r \in rows : ~(r.rowid < MaxRowid({p2 \in rows : PholusSameKey(r, p2)}))}

\* DELETE FROM Pholus_Scan WHERE rowid > (SELECT MIN(rowid) FROM Pholus_Scan
\* p2 WHERE MAC, Value and Record_Type equal)
PholusDedupResult(rows) ==
    {r \in rows : ~(r.rowid > MinRowid({p2 \in rows : PholusSameKey(r, p2)}))}

\* The Plugins_Objects de-duplication with its comparison turned round
ObjectsDedupFlipped(rows) ==
    {r \in rows : ~(r.rowid < MinRowid({p2 \in rows : ObjectsSameKey(r, p2)}))}

\* DELETE FROM Plugins_Objects WHERE rowid > (SELECT MIN(rowid) FROM
\* Plugins_Objects p2 WHERE Plugin, Object_PrimaryID, Object_SecondaryID and
\* UserData equal)
ObjectsDedupResult(rows) ==
    {r \in rows : ~(r.rowid > MinRowid({p2 \in rows : ObjectsSameKey(r, p2)}))}

\* A connection in autocommit mode: each statement is committed as it runs
AfterExecuteAutocommit(committed, pending) == pending

\* sqlite3.connect with the default isolation level: a DELETE opens an
\* implicit transaction, and the file keeps its committed contents until
\* conn.commit()
AfterExecute(committed, pending) == committed

----------------------------------------------------------------------------
(* Table contents the runs start from.  Each initial database varies one   *)
(* table (and the parameters of its statement) over a bounded set and      *)
(* holds a small fixed content in the others.                              *)

\* the ways to fill rows first+1 .. first+n, n <= max, from Choices
Fillings(first, max, Choices) ==
    UNION {[(first + 1)..(first + n) -> Choices] : n \in 0..max}

OnlineRow(i, d) == [Index |-> i, Scan_Date |-> d]
EventRow(i, d) == [rowid |-> i, eve_DateTime |-> d]
HistRow(i, c) == [Index |-> i, Plugin |-> c[1], DateTimeChanged |-> c[2]]
CapRow(i, d) == [Index |-> i, DateTimeCreated |-> d]
DeviceRow(i, c) ==
    [rowid |-> i, dev_NewDevice |-> c[1], dev_FirstConnection |-> c[2]]
PholusRow(i, c) ==
    [rowid |-> i, Time |-> c[1], MAC |-> c[2][1], Value |-> c[2][2],
     Record_Type |-> c[2][3]]
ObjectRow(i, c) ==
    [rowid |-> i, Plugin |-> c[1], Object_PrimaryID |-> c[2],
     Object_SecondaryID |-> c[3], UserData |-> c[4]]

\* Online_History: a bulk of recent scans, two short of the limit, and up to
\* MaxOnlineExtra older scans
OnlineBulkSize == OnlineKeep - 2
OnlineBulk ==
    {OnlineRow(i, <<5 + (i \div HoursPerDay), i % HoursPerDay>>) :
        i \in 1..OnlineBulkSize}
OnlineContents ==
    {OnlineBulk \cup X :
        X \in {{OnlineRow(i, f[i]) : i \in DOMAIN f} :
        f \in Fillings(OnlineBulkSize, MaxOnlineExtra, {<<1, 0>>, <<2, 0>>})}}

EventsContents ==
    {{EventRow(i, f[i]) : i \in DOMAIN f} :
        f \in Fillings(0, MaxEvents, {<<1, 20>>, <<2, 0>>, <<2, 5>>, <<2, 20>>})}

HistContents ==
    {{HistRow(i, f[i]) : i \in DOMAIN f} :
        f \in Fillings(0, MaxHist, {"X", "Y"} \X {<<1, 0>>, <<1, 6>>, <<2, 0>>})}

CapContents == {{CapRow(i, f[i]) : i \in DOMAIN f} :
        f \in Fillings(0, MaxCapRows, {<<1, 0>>, <<2, 0>>})}

DevicesContents ==
    {{DeviceRow(i, f[i]) : i \in DOMAIN f} :
        f \in Fillings(0, MaxDevices, {0, 1} \X {<<1, 20>>, <<2, 23>>, <<3, 2>>})}

PholusKeys ==
    {<<"AA:BB", "v1", "A">>, <<"AA:BB", "v1", "B">>,
     <<"AA:BB", "v2", "A">>, <<"CC:DD", "v1", "A">>}
PholusContents ==
    {{PholusRow(i, f[i]) : i \in DOMAIN f} :
        f \in Fillings(0, MaxPholus, {<<1, 20>>, <<3, 2>>} \X PholusKeys)}

ObjectsKeys ==
    {<<"ARPSCAN", "m1", "ip1", "">>, <<"NMAP", "m1", "ip1", "">>,
     <<"ARPSCAN", "m2", "ip1", "">>, <<"ARPSCAN", "m1", "ip2", "">>,
     <<"ARPSCAN", "m1", "ip1", "u">>}
ObjectsContents == {{ObjectRow(i, f[i]) : i \in DOMAIN f} :
        f \in Fillings(0, MaxObjects, ObjectsKeys)}

Tables ==
    {"Online_History", "Events", "Plugins_History", "Notifications",
     "AppEvents", "Devices", "Pholus_Scan", "Plugins_Objects"}

\* the fixed content: every statement but the Online_History cap has
\* something to delete under DefaultArgs and DefaultSettings
DefaultDb ==
    [Online_History  |-> {OnlineRow(1, <<1, 0>>), OnlineRow(2, <<2, 0>>)},
     Events          |-> {EventRow(1, <<1, 20>>), EventRow(2, <<2, 20>>)},
     Plugins_History |-> {HistRow(1, <<"X", <<1, 0>>>>),
                          HistRow(2, <<"X", <<2, 0>>>>)},
     Notifications   |-> {CapRow(1, <<1, 0>>), CapRow(2, <<2, 0>>)},
     AppEvents       |-> {CapRow(1, <<1, 0>>), CapRow(2, <<2, 0>>)},
     Devices         |-> {DeviceRow(1, <<1, <<1, 20>>>>)},
     Pholus_Scan     |-> {PholusRow(1, <<<<3, 2>>, <<"AA:BB", "v1", "A">>>>),
                          PholusRow(2, <<<<3, 2>>, <<"AA:BB", "v1", "A">>>>)},
     Plugins_Objects |-> {ObjectRow(1, <<"ARPSCAN", "m1", "ip1", "">>),
                          ObjectRow(2, <<"ARPSCAN", "m1", "ip1", "">>)},
     \* a table cleanup_database has no statement for
     Settings        |-> {[Code_Name |-> "TIMEZONE", Value |-> "UTC"]}]

DefaultArgs ==
    [DAYS_TO_KEEP_EVENTS |-> 1, PHOLUS_DAYS_DATA |-> PyInt(1),
     HRS_TO_KEEP_NEWDEV |-> 30, PLUGINS_KEEP_HIST |-> 1]

DefaultSettings == [DBCLNP_NOTIFI_HIST |-> 1, WORKFLOWS_AppEvents_hist |-> 1]

\* the clock: noon and midnight of day 3
Noon == 3 * HoursPerDay + 12
Nows == {Noon, 3 * HoursPerDay}

Start(d, a, s, t) ==
    /\ pc = "connect"
    /\ conn = "none"
    /\ db = d
    /\ tx = d
    /\ pre = <<>>
    /\ args = a
    /\ settings = s
    /\ now = t
    /\ run = 1
    /\ failedAt = ""
    /\ commits = 0

InitOnline ==
    \E c \in OnlineContents :
        Start([DefaultDb EXCEPT !.Online_History = c], DefaultArgs,
              DefaultSettings, Noon)

InitEvents ==
    \E c \in EventsContents, n \in 0..2, t \in Nows :
        Start([DefaultDb EXCEPT !.Events = c],
              [DefaultArgs EXCEPT !.DAYS_TO_KEEP_EVENTS = n],
              DefaultSettings, t)

InitHist ==
    \E c \in HistContents, k \in 0..MaxKeep :
        Start([DefaultDb EXCEPT !.Plugins_History = c],
              [DefaultArgs EXCEPT !.PLUGINS_KEEP_HIST = k],
              DefaultSettings, Noon)

InitCaps ==
    \E c1 \in CapContents, c2 \in CapContents,
       k1 \in 1..MaxKeep, k2 \in 1..MaxKeep :
        Start([DefaultDb EXCEPT !.Notifications = c1, !.AppEvents = c2],
              DefaultArgs,
              [DBCLNP_NOTIFI_HIST |-> k1, WORKFLOWS_AppEvents_hist |-> k2],
              Noon)

InitDevices ==
    \E c \in DevicesContents, h \in {0, 1, 30}, t \in Nows :
        Start([DefaultDb EXCEPT !.Devices = c],
              [DefaultArgs EXCEPT !.HRS_TO_KEEP_NEWDEV = h],
              DefaultSettings, t)

InitPholus ==
    \E c \in PholusContents, v \in {PyStr(""), PyInt(0), PyInt(1)} :
        Start([DefaultDb EXCEPT !.Pholus_Scan = c],
              [DefaultArgs EXCEPT !.PHOLUS_DAYS_DATA = v],
              DefaultSettings, Noon)

InitObjects ==
    \E c \in ObjectsContents :
        Start([DefaultDb EXCEPT !.Plugins_Objects = c], DefaultArgs,
              DefaultSettings, Noon)

Init ==
    \/ InitOnline
    \/ InitEvents
    \/ InitHist
    \/ InitCaps
    \/ InitDevices
    \/ InitPholus
    \/ InitObjects

----------------------------------------------------------------------------
(* cleanup_database, one action per statement *)

\* cursor.execute of a DELETE: the table takes one of the statement's
\* results inside the connection's transaction
Execute(here, next, table, results) ==
    /\ pc = here
    /\ \E rows \in results :
          tx' = [tx EXCEPT ![table] = rows]
    /\ db' = AfterExecute(db, tx')
    /\ pc' = next
    /\ UNCHANGED <<conn, pre, args, settings, now, run, failedAt, commits>>

\* conn = sqlite3.connect(dbPath); cursor = conn.cursor()
Connect ==
    /\ pc = "connect"
    /\ conn' = "open"
    /\ tx' = db
    /\ pre' = Append(pre, db)
    /\ commits' = 0
    /\ pc' = "online_history"
    /\ UNCHANGED <<db, args, settings, now, run, failedAt>>

CleanupOnlineHistory ==
    Execute("online_history", "events", "Online_History",
            OnlineHistoryResults(tx.Online_History))

CleanupEvents ==
    Execute("events", "plugins_history", "Events",
            {EventsResult(tx.Events, args.DAYS_TO_KEEP_EVENTS, now)})

TrimPluginsHistory ==
    Execute("plugins_history", "notifications", "Plugins_History",
            PluginsHistoryResults(tx.Plugins_History, args.PLUGINS_KEEP_HIST))

TrimNotifications ==
    Execute("notifications", "appevents", "Notifications",
            NotificationsResults(tx.Notifications,
                                 settings.DBCLNP_NOTIFI_HIST))

TrimAppEvents ==
    Execute("appevents", "devices", "AppEvents",
            AppEventsResults(tx.AppEvents, settings.WORKFLOWS_AppEvents_hist))

CleanupNewDevices ==
    Execute("devices", "pholus_scan", "Devices",
            {DevicesResult(tx.Devices, args.HRS_TO_KEEP_NEWDEV, now)})

CleanupPholusScan ==
    Execute("pholus_scan", "pholus_dedup", "Pholus_Scan",
            {PholusAgeResult(tx.Pholus_Scan, args.PHOLUS_DAYS_DATA, now)})

DedupePholusScan ==
    Execute("pholus_dedup", "objects_dedup", "Pholus_Scan",
            {PholusDedupResult(tx.Pholus_Scan)})

DedupePluginsObjects ==
    Execute("objects_dedup", "commit", "Plugins_Objects",
            {ObjectsDedupResult(tx.Plugins_Objects)})

\* conn.commit()
Commit ==
    /\ pc = "commit"
    /\ db' = tx
    /\ commits' = commits + 1
    /\ pc' = "vacuum"
    /\ UNCHANGED <<conn, tx, pre, args, settings, now, run, failedAt>>

\* cursor.execute("VACUUM;"): rewrites the file, the rows stay as they are
Vacuum ==
    /\ pc = "vacuum"
    /\ pc' = "close"
    /\ UNCHANGED <<conn, db, tx, pre, args, settings, now, run, failedAt,
                   commits>>

\* conn.close()
Close ==
    /\ pc = "close"
    /\ conn' = "closed"
    /\ pc' = "done"
    /\ UNCHANGED <<db, tx, pre, args, settings, now, run, failedAt, commits>>

DeleteSteps ==
    {"online_history", "events", "plugins_history", "notifications",
     "appevents", "devices", "pholus_scan", "pholus_dedup", "objects_dedup"}

\* A statement, the commit or the VACUUM raises (locked database, malformed
\* SQL from a setting, disk full): nothing catches it, the exception leaves
\* cleanup_database, and no later line of the function runs.
Raise ==
    /\ pc \in DeleteSteps \cup {"commit", "vacuum"}
    /\ failedAt' = pc
    /\ pc' = "failed"
    /\ UNCHANGED <<conn, db, tx, pre, args, settings, now, run, commits>>

\* main() is started again by the scheduler, with the same arguments,
\* settings and clock, after a run that completed
Rerun ==
    /\ pc = "done"
    /\ run < MaxRuns
    /\ run' = run + 1
    /\ conn' = "none"
    /\ pc' = "connect"
    /\ UNCHANGED <<db, tx, pre, args, settings, now, failedAt, commits>>

Next ==
    \/ Connect
    \/ CleanupOnlineHistory
    \/ CleanupEvents
    \/ TrimPluginsHistory
    \/ TrimNotifications
    \/ TrimAppEvents
    \/ CleanupNewDevices
    \/ CleanupPholusScan
    \/ DedupePholusScan
    \/ DedupePluginsObjects
    \/ Commit
    \/ Vacuum
    \/ Close
    \/ Raise
    \/ Rerun

Spec == Init /\ [][Next]_vars

SpecOnline == InitOnline /\ [][Next]_vars
SpecEvents == InitEvents /\ [][Next]_vars
SpecHist == InitHist /\ [][Next]_vars
SpecDevices == InitDevices /\ [][Next]_vars
SpecDedup == (InitPholus \/ InitObjects) /\ [][Next]_vars

----------------------------------------------------------------------------
(* Properties *)

\* the instant a timestamp text denotes, in hours since day 0
Instant(ts) == ts[1] * HoursPerDay + ts[2]

\* the current run has connected; Before is what the database held then
Connected == Len(pre) = run
Before == pre[run]
Completed == pc = "done"

\* C1: after a completed run every plugin of Plugins_History keeps
\* min(K, its row count) rows, at most K, none of them older than a deleted
\* row of the same plugin, whatever the other plugins hold.
PerPluginCap ==
    Completed =>
        /\ db.Plugins_History \subseteq Before.Plugins_History
        /\ \A p \in {r.Plugin : r \in Before.Plugins_History} :
              LET had == {r \in Before.Plugins_History : r.Plugin = p}
                  kept == {r \in db.Plugins_History : r.Plugin = p}
              IN  /\ Cardinality(kept) <= args.PLUGINS_KEEP_HIST
                  /\ Cardinality(kept) =
                        Min(args.PLUGINS_KEEP_HIST, Cardinality(had))
                  /\ \A r \in kept, d \in had \ kept :
                        Instant(r.DateTimeChanged) >= Instant(d.DateTimeChanged)

\* a run that trimmed one plugin while another plugin kept all its rows
PerPluginCapWitness ==
    /\ Completed
    /\ run = 1
    /\ args.PLUGINS_KEEP_HIST >= 1
    /\ \E r \in Before.Plugins_History : r \notin db.Plugins_History
    /\ \E p \in {r.Plugin : r \in Before.Plugins_History} :
          /\ {r \in Before.Plugins_History : r.Plugin = p} # {}
          /\ {r \in Before.Plugins_History : r.Plugin = p}
                \subseteq db.Plugins_History

\* C10: after a completed run Online_History has at most 150 rows, all of
\* its rows when it had 150 or fewer, and no retained row has a Scan_Date
\* below that of a row the run deleted.
OnlineHistoryCap ==
    Completed =>
        /\ db.Online_History \subseteq Before.Online_History
        /\ Cardinality(db.Online_History) <= OnlineKeep
        /\ Cardinality(Before.Online_History) <= OnlineKeep
              => db.Online_History = Before.Online_History
        /\ \A r \in db.Online_History,
              d \in Before.Online_History \ db.Online_History :
                 Instant(r.Scan_Date) >= Instant(d.Scan_Date)

\* a run that cut a table of more than 150 rows, two of the oldest tied
OnlineHistoryCapWitness ==
    /\ Completed
    /\ run = 1
    /\ Cardinality(Before.Online_History) > OnlineKeep
    /\ Cardinality(db.Online_History) = OnlineKeep
    /\ \E r \in db.Online_History,
          d \in Before.Online_History \ db.Online_History :
             r.Scan_Date = d.Scan_Date

\* C2: after a completed run no two rows of Pholus_Scan agree on
\* (MAC, Value, Record_Type) and no two rows of Plugins_Objects agree on
\* (Plugin, Object_PrimaryID, Object_SecondaryID, UserData).
NoDuplicatesLeft ==
    Completed =>
        /\ \A r, q \in db.Pholus_Scan :
              (r.MAC = q.MAC /\ r.Value = q.Value
                 /\ r.Record_Type = q.Record_Type) => r = q
        /\ \A r, q \in db.Plugins_Objects :
              (r.Plugin = q.Plugin
                 /\ r.Object_PrimaryID = q.Object_PrimaryID
                 /\ r.Object_SecondaryID = q.Object_SecondaryID
                 /\ r.UserData = q.UserData) => r = q

\* a run that reduced a group of three duplicates of each table to one row
NoDuplicatesLeftWitness ==
    /\ Completed
    /\ run = 1
    /\ \/ \E r \in db.Plugins_Objects :
             Cardinality({q \in Before.Plugins_Objects :
                             /\ q.Plugin = r.Plugin
                             /\ q.Object_PrimaryID = r.Object_PrimaryID
                             /\ q.Object_SecondaryID = r.Object_SecondaryID
                             /\ q.UserData = r.UserData}) >= 3
       \/ \E r \in db.Pholus_Scan :
             Cardinality({q \in Before.Pholus_Scan :
                             /\ q.MAC = r.MAC
                             /\ q.Value = r.Value
                             /\ q.Record_Type = r.Record_Type
                             /\ q.Time = r.Time}) >= 3

\* the rows of a table that share r's duplicate key
PholusGroup(rows, r) ==
    {q \in rows : q.MAC = r.MAC /\ q.Value = r.Value
                    /\ q.Record_Type = r.Record_Type}
ObjectsGroup(rows, r) ==
    {q \in rows : q.Plugin = r.Plugin
                    /\ q.Object_PrimaryID = r.Object_PrimaryID
                    /\ q.Object_SecondaryID = r.Object_SecondaryID
                    /\ q.UserData = r.UserData}
Smallest(group, r) == \A q \in group : r.rowid <= q.rowid

\* the Pholus age-out is enabled and r's day lies before its threshold day
AgedOut(r) ==
    /\ args.PHOLUS_DAYS_DATA # PyStr("")
    /\ args.PHOLUS_DAYS_DATA # PyInt(0)
    /\ r.Time[1] < (now \div HoursPerDay) - args.PHOLUS_DAYS_DATA.num

\* C3 (as claimed): after a completed run, of every group that held
\* duplicates before the run the row of smallest row id is still present,
\* whatever the retention parameters.
SmallestOfGroupKept ==
    Completed =>
        /\ \A r \in Before.Pholus_Scan :
              LET g == PholusGroup(Before.Pholus_Scan, r)
              IN  (Cardinality(g) >= 2 /\ Smallest(g, r))
                     => r \in db.Pholus_Scan
        /\ \A r \in Before.Plugins_Objects :
              LET g == ObjectsGroup(Before.Plugins_Objects, r)
              IN  (Cardinality(g) >= 2 /\ Smallest(g, r))
                     => r \in db.Plugins_Objects

\* C3 (amended): after a completed run, of every group that held duplicates
\* before the run the row of smallest row id among those the Pholus age-out
\* leaves is still present; for Plugins_Objects that is the smallest of the
\* whole group.
SmallestSurvivorKept ==
    Completed =>
        /\ \A r \in Before.Pholus_Scan :
              LET g == {q \in PholusGroup(Before.Pholus_Scan, r) : ~AgedOut(q)}
              IN  (Cardinality(PholusGroup(Before.Pholus_Scan, r)) >= 2
                     /\ ~AgedOut(r) /\ Smallest(g, r))
                     => r \in db.Pholus_Scan
        /\ \A r \in Before.Plugins_Objects :
              LET g == ObjectsGroup(Before.Plugins_Objects, r)
              IN  (Cardinality(g) >= 2 /\ Smallest(g, r))
                     => r \in db.Plugins_Objects

\* a run whose age-out removed the first row of a group of duplicates and
\* whose de-duplication then chose among two or more later rows
SmallestSurvivorKeptWitness ==
    /\ Completed
    /\ run = 1
    /\ \E r \in Before.Pholus_Scan :
          LET g == PholusGroup(Before.Pholus_Scan, r)
          IN  /\ Smallest(g, r)
              /\ AgedOut(r)
              /\ Cardinality({q \in g : ~AgedOut(q)}) >= 2
              /\ Cardinality(PholusGroup(db.Pholus_Scan, r)) = 1

\* C4 (as claimed): after a completed run no Events row is left whose
\* eve_DateTime is at or before the instant N days before now.
EventsOlderThanWindowGone ==
    Completed =>
        \A r \in db.Events :
            Instant(r.eve_DateTime)
               > now - args.DAYS_TO_KEEP_EVENTS * HoursPerDay

\* C5 (as claimed): with H = 0 the run leaves Devices as it was; with H > 0
\* every new device left has its first connection at or after now - H
\* hours; a device that is not new is never deleted.
NewDeviceExpiry ==
    Completed =>
        /\ args.HRS_TO_KEEP_NEWDEV = 0 => db.Devices = Before.Devices
        /\ args.HRS_TO_KEEP_NEWDEV > 0 =>
              \A r \in db.Devices :
                 r.dev_NewDevice = 1 =>
                    Instant(r.dev_FirstConnection)
                       >= now - args.HRS_TO_KEEP_NEWDEV
        /\ \A r \in Before.Devices :
              r.dev_NewDevice # 1 => r \in db.Devices

\* C6: a run that follows a completed run, with the same arguments,
\* settings and clock, deletes nothing: at each of its points the
\* connection sees, and the file holds, what the first run left.
SecondRunDeletesNothing ==
    (run > 1 /\ Connected) => (tx = Before /\ db = Before)

\* a second run completed after a first run that deleted rows
SecondRunDeletesNothingWitness ==
    /\ Completed
    /\ run = 2
    /\ pre[1] # pre[2]
    /\ \E r \in pre[1].Pholus_Scan :
          Cardinality(PholusGroup(pre[1].Pholus_Scan, r)) >= 3

\* C7: the deletions are committed once, after the last DELETE and before
\* the VACUUM: until the commit the file holds its pre-run contents, also
\* when a DELETE or the commit has raised; from the commit on it holds all
\* the deletions, also when the VACUUM has raised.
AllOrNothing ==
    Connected =>
        /\ commits \in {0, 1}
        /\ commits = 0 => db = Before
        /\ commits = 1 => db = tx
        /\ commits = 1 <=>
              \/ pc \in {"vacuum", "close", "done"}
              \/ pc = "failed" /\ failedAt = "vacuum"
        /\ (pc = "failed" /\ failedAt \in DeleteSteps \cup {"commit"})
              => db = Before

\* a DELETE raised after earlier statements of the run had deleted rows
AllOrNothingWitness ==
    /\ Connected
    /\ pc = "failed"
    /\ failedAt \in DeleteSteps
    /\ tx # Before
    /\ db = Before

\* C8 (as claimed): a run that opened the connection ends, normally or by a
\* raised statement, with the connection closed by cleanup_database.
ClosedWhenOver ==
    pc \in {"done", "failed"} => conn = "closed"

\* C9: at every point of a run each table holds a subset of its pre-run
\* rows, a table without a statement is as it was, Devices is as it was
\* when HRS_TO_KEEP_NEWDEV = 0, and Pholus_Scan is as it was after the
\* age-out step when PHOLUS_DAYS_DATA is "" or 0.
DeleteOnlyFrame ==
    Connected =>
        /\ \A t \in Tables :
              /\ tx[t] \subseteq Before[t]
              /\ db[t] \subseteq Before[t]
        /\ tx.Settings = Before.Settings
        /\ db.Settings = Before.Settings
        /\ args.HRS_TO_KEEP_NEWDEV = 0 =>
              (tx.Devices = Before.Devices /\ db.Devices = Before.Devices)
        /\ (args.PHOLUS_DAYS_DATA \in {PyStr(""), PyInt(0)}
              /\ pc = "pholus_dedup")
              => tx.Pholus_Scan = Before.Pholus_Scan

\* the age-out step passed with PHOLUS_DAYS_DATA = 0 over a Pholus_Scan
\* holding rows of an earlier day, after other tables had lost rows
DeleteOnlyFrameWitness ==
    /\ Connected
    /\ run = 1
    /\ pc = "pholus_dedup"
    /\ args.PHOLUS_DAYS_DATA = PyInt(0)
    /\ \E r \in tx.Pholus_Scan : r.Time[1] < now \div HoursPerDay
    /\ tx.Events # Before.Events

====
